---- MODULE Spec2Model ----
(***************************************************************************)
(* Model of the report-analysis pipeline of project_task:                  *)
(*   scripts/llm_processing.py  chunking, model fallback, merge_results    *)
(*   scripts/text_cleaning.py   clean_text and its four sub-transforms     *)
(*   main.py                    the batch loop of run_llm_processing       *)
(*                                                                         *)
(* Python values are tagged records [t |-> type, v |-> payload]; a text is *)
(* a sequence of characters, where a character is a one-element token      *)
(* (a letter, a digit, a blank, "\n") or a fixed word ("Page", "Annual").  *)
(***************************************************************************)
EXTENDS Integers, Sequences, FiniteSets, TLC

VARIABLES
    \* ---- run_llm_processing / process_file_smart ----
    texts,          \* stem -> content of Data/cleaned_text/<stem>.txt
    output_files,   \* stems whose Data/llm_outputs/<stem>.json exists
    fileIdx,        \* position of the batch loop in Files
    pc,             \* position inside the loop body / process_file_smart
    chunks,         \* local: the chunk list of the current document
    modelIdx,       \* local: index into MODELS_TO_TRY
    i,              \* local: index of the chunk being processed (1-based)
    chunk_results,  \* local: results returned under the current model
    res,            \* local: what the last process_chunk call returned
    model_failed,   \* local: the failure flag of the current model attempt
    result,         \* what process_file_smart returned to the batch loop
    outcome,        \* stem -> how the document ended
    trace,          \* history of backend calls of the current document
    \* ---- the pure functions, each applied to inputs drawn at Init ----
    chunking,       \* [text, budget, chunks, done]: the chunk list of a text
    merging,        \* [results, merged, nested, step]: merge_results of a result list
    cleaning        \* [text, company, stages, cleaned, recleaned, step]: clean_text of a text

orchVars == <<texts, output_files, fileIdx, pc, chunks, modelIdx, i,
              chunk_results, res, model_failed, result, outcome, trace>>

pureVars == <<chunking, merging, cleaning>>

vars == <<orchVars, pureVars>>

-----------------------------------------------------------------------------
(* Bounds of the model *)

\* Longest document text (in characters) of the batch runs.
MaxTextLen == 5

\* Longest text and largest budget handed to the chunker on its own.
MaxChunkText == 5
MaxBudget == 4

\* Longest list of per-chunk results handed to merge_results on its own.
MaxResults == 3

\* Most pieces (lines) of a text handed to clean_text.
MaxLines == 3

\* llm_processing.py:107 sets CHUNK_SIZE_CHARS = 300000; the model scales the
\* budget down so that documents of a few characters split into several chunks.
CHUNK_SIZE_CHARS == 2

-----------------------------------------------------------------------------
(* Python values *)

None == [t |-> "None", v |-> <<>>]
Dict(f) == [t |-> "dict", v |-> f]
List(s) == [t |-> "list", v |-> s]
Str(s) == [t |-> "str", v |-> s]
PyInt(n) == [t |-> "int", v |-> <<n>>]
\* An exception that leaves the function instead of a return value.
Raised(e) == [t |-> "raise", v |-> e]

\* bool(value), as used by 'if res:' and 'if result:'
Truthy(val) ==
    CASE val.t = "None" -> FALSE
      [] val.t = "dict" -> DOMAIN val.v # {}
      [] val.t = "list" -> Len(val.v) > 0
      [] val.t = "str"  -> Len(val.v) > 0
      [] val.t = "int"  -> val.v # <<0>>
      [] OTHER -> TRUE

RECURSIVE FlattenReversed(_)
\* Variant of Flatten: each later list is put in front of the earlier ones.
FlattenReversed(ss) == IF ss = <<>> THEN <<>> ELSE FlattenReversed(Tail(ss)) \o Head(ss)

RECURSIVE Flatten(_)
\* Concatenation of a sequence of sequences, in order.
Flatten(ss) == IF ss = <<>> THEN <<>> ELSE Head(ss) \o Flatten(Tail(ss))

-----------------------------------------------------------------------------
(* llm_processing.py *)

MODELS_TO_TRY == <<"gpt-4o-mini", "gpt-4o">>

CATEGORIES == <<"positive", "negative", "forward_looking", "risks">>
CategorySet == {CATEGORIES[k] : k \in 1..Len(CATEGORIES)}

\* 'key in res' of merge_results: a key test on a dict, an element test on a
\* list, a substring test on a str, a TypeError on an int.
KeyInRaises(val) == val.t \notin {"dict", "list", "str"}
KeyIn(key, val) ==
    CASE val.t = "dict" -> key \in DOMAIN val.v
      [] val.t = "list" -> \E k \in 1..Len(val.v) : val.v[k] = key
      [] val.t = "str"  -> \E k \in 1..Len(val.v) : val.v[k] = key
      [] OTHER -> FALSE

\* res[key] raises TypeError unless val is a dict.
SubscriptRaises(key, val) == KeyIn(key, val) /\ val.t # "dict"

\* The list that merge_results takes from one result for one key.
Taken(key, val) ==
    IF KeyIn(key, val) /\ val.v[key].t = "list" THEN val.v[key].v ELSE <<>>

MergeRaises(results) ==
    \E r \in 1..Len(results) :
        \/ KeyInRaises(results[r])
        \/ \E k \in 1..Len(CATEGORIES) : SubscriptRaises(CATEGORIES[k], results[r])

merge_results(results) ==
    IF MergeRaises(results)
    THEN Raised("TypeError")
    ELSE Dict([key \in CategorySet |->
                 List(Flatten([r \in 1..Len(results) |-> Taken(key, results[r])]))])

\* range(0, text_len, size) as 1-based start offsets.
ChunkStarts(text_len, size) ==
    [k \in 1..((text_len + size - 1) \div size) |-> (k - 1) * size + 1]

\* Variant of Slice: the slice ends one character early, text[i : i + size - 1].
SliceShort(text, start, size) ==
    SubSeq(text, start, IF start + size - 2 < Len(text) THEN start + size - 2 ELSE Len(text))

\* text[i : i + size] for a 1-based start offset.
Slice(text, start, size) ==
    SubSeq(text, start, IF start + size - 1 < Len(text) THEN start + size - 1 ELSE Len(text))

\* The chunk list of process_file_smart for a chunk budget.
Chunker(text, size) ==
    IF Len(text) > size
    THEN [k \in 1..Len(ChunkStarts(Len(text), size)) |->
             Slice(text, ChunkStarts(Len(text), size)[k], size)]
    ELSE <<text>>

\* One element of a backend response text: a markdown fence, a JSON document
\* (the value it decodes to) or text that is no JSON.
Fence(f) == [t |-> "fence", v |-> f]
NotJson == [t |-> "text", v |-> <<>>]

\* Lines 86-92 of process_chunk: strip one leading json fence, one leading
\* bare fence and one trailing bare fence. Fence("json") is the three
\* backquotes followed by json, Fence("") the three backquotes alone.
StripFences(content) ==
    LET c1 == IF Len(content) > 0 /\ Head(content) = Fence("json") THEN Tail(content) ELSE content
        c2 == IF Len(c1) > 0 /\ Head(c1) = Fence("") THEN Tail(c1) ELSE c1
        c3 == IF Len(c2) > 0 /\ c2[Len(c2)] = Fence("") THEN SubSeq(c2, 1, Len(c2) - 1) ELSE c2
    IN c3

\* json.loads decodes a text that is exactly one JSON document.
JsonLoadsRaises(content) ==
    Len(content) # 1 \/ content[1].t \in {"fence", "text"}

\* process_chunk: the decoded data, or None when the call, the content access or
\* json.loads raised (the except clause of lines 97-99).
process_chunk(reply) ==
    IF reply.raises THEN None
    ELSE IF JsonLoadsRaises(StripFences(reply.content)) THEN None
    ELSE StripFences(reply.content)[1]

\* The four-key result a model returns when it follows the prompt; the
\* statements carry the name of the model that produced them.
ExtractionResult(m) ==
    Dict([key \in CategorySet |->
            IF key \in {"positive", "risks"} THEN List(<<m>>) ELSE List(<<>>)])

\* What the backend may answer to one call under a model.
BackendReplies(m) == <<
    [raises |-> TRUE,  content |-> <<>>],
    [raises |-> FALSE, content |-> <<NotJson>>],
    [raises |-> FALSE, content |-> <<Dict(<<>>)>>],
    [raises |-> FALSE, content |-> <<ExtractionResult(m)>>],
    [raises |-> FALSE, content |-> <<Fence("json"), ExtractionResult(m), Fence("")>>],
    [raises |-> FALSE, content |-> <<Dict("positive" :> List(<<m>>))>>],
    [raises |-> FALSE, content |-> <<Dict(("summary" :> Str(<<m>>)) @@ ExtractionResult(m).v)>>],
    [raises |-> FALSE, content |-> <<Dict(("positive" :> Str(<<m>>)) @@ ExtractionResult(m).v)>>],
    [raises |-> FALSE, content |-> <<PyInt(5)>> ] >>

-----------------------------------------------------------------------------
(* text_cleaning.py: the company name of a file *)

\* stem.split('_')[0] when '_' is in the stem, else the stem (lines 165-169).
RECURSIVE BeforeUnderscore(_)
BeforeUnderscore(stem) ==
    IF stem = <<>> \/ Head(stem) = "_" THEN <<>>
    ELSE <<Head(stem)>> \o BeforeUnderscore(Tail(stem))

company_name(stem) ==
    IF \E k \in 1..Len(stem) : stem[k] = "_" THEN BeforeUnderscore(stem) ELSE stem

-----------------------------------------------------------------------------
(* text_cleaning.py: characters, regular expressions, str methods *)

NL == "\n"
\* The bullet U+2022 of the list pattern, and the three characters
\* (U+00E2 U+20AC U+00A2) that line 121 passes to startswith.
BULLET == "<U+2022>"
MOJIBAKE == "<U+00E2 U+20AC U+00A2>"

\* \s of the patterns and the characters str.strip() removes.
IsSpace(c) == c \in {" ", "\t", "\n"}
\* [ \t]
IsBlank(c) == c \in {" ", "\t"}
\* \d
IsDigit(c) == c \in {"0", "1", "2", "3", "4", "5", "6", "7", "8", "9"}

\* str.lower() and re.IGNORECASE on one character (a fixed word is one character).
Lower(c) ==
    CASE c = "Page" -> "page"
      [] c = "PAGE" -> "page"
      [] c = "Annual" -> "annual"
      [] c = "Report" -> "report"
      [] c = "YF" -> "yf"
      [] c = "ACME" -> "acme"
      [] c = "A" -> "a"
      [] OTHER -> c

\* Elements of a regular expression: a literal character, a character class
\* repeated min..max times (greedy), or the end of the string.
Unbounded == 1000000
Lit(c) == [k |-> "lit", c |-> c, min |-> 1, max |-> 1]
Rep(class, min, max) == [k |-> class, c |-> "", min |-> min, max |-> max]
EndOfString == [k |-> "end", c |-> "", min |-> 0, max |-> 0]

InClass(class, c) ==
    CASE class = "space" -> IsSpace(c)            \* \s
      [] class = "digit" -> IsDigit(c)            \* \d
      [] class = "any" -> c # NL                  \* .
      [] class = "listmark" -> IsDigit(c) \/ c = "-" \/ c = BULLET   \* [\d\-\u2022]
      [] class = "blank" -> IsBlank(c)            \* [ \t]
      [] class = "newline" -> c = NL              \* \n
      [] OTHER -> FALSE

RECURSIVE RunLength(_, _, _)
\* How many characters of the class follow each other from position pos.
RunLength(class, s, pos) ==
    IF pos <= Len(s) /\ InClass(class, s[pos]) THEN 1 + RunLength(class, s, pos + 1) ELSE 0

RECURSIVE MatchEnd(_, _, _, _, _), TryRepeat(_, _, _, _, _, _)
\* The position after the match of re[k..] at s[pos..], 0 when there is none.
MatchEnd(re, k, s, pos, ignorecase) ==
    IF k > Len(re) THEN pos
    ELSE IF re[k].k = "end" THEN
        IF pos = Len(s) + 1 THEN MatchEnd(re, k + 1, s, pos, ignorecase) ELSE 0
    ELSE IF re[k].k = "lit" THEN
        IF /\ pos <= Len(s)
           /\ IF ignorecase THEN Lower(s[pos]) = Lower(re[k].c) ELSE s[pos] = re[k].c
        THEN MatchEnd(re, k + 1, s, pos + 1, ignorecase) ELSE 0
    ELSE
        LET run == RunLength(re[k].k, s, pos)
        IN TryRepeat(re, k, s, pos, IF run < re[k].max THEN run ELSE re[k].max, ignorecase)

\* A greedy repetition: n characters are taken, then one fewer, down to
\* re[k].min, until the rest of the expression matches.
TryRepeat(re, k, s, pos, n, ignorecase) ==
    IF n < re[k].min THEN 0
    ELSE LET e == MatchEnd(re, k + 1, s, pos + n, ignorecase)
         IN IF e # 0 THEN e ELSE TryRepeat(re, k, s, pos, n - 1, ignorecase)

\* re.match(pattern, s, flags)
ReMatch(re, s, ignorecase) == MatchEnd(re, 1, s, 1, ignorecase) # 0

RECURSIVE ReSubEmpty(_, _, _, _)
\* re.sub(pattern, '', s, flags) from position pos on: every leftmost match is dropped.
ReSubEmpty(re, s, pos, ignorecase) ==
    IF pos > Len(s) THEN <<>>
    ELSE LET e == MatchEnd(re, 1, s, pos, ignorecase)
         IN IF e > pos THEN ReSubEmpty(re, s, e, ignorecase)
            ELSE <<s[pos]>> \o ReSubEmpty(re, s, pos + 1, ignorecase)

RECURSIVE IndexOfNewline(_, _)
\* The position of the first "\n" at or after pos, 0 when there is none.
IndexOfNewline(text, pos) ==
    IF pos > Len(text) THEN 0
    ELSE IF text[pos] = NL THEN pos
    ELSE IndexOfNewline(text, pos + 1)

RECURSIVE SplitLines(_)
\* text.split('\n')
SplitLines(text) ==
    LET cut == IndexOfNewline(text, 1)
    IN IF cut = 0 THEN <<text>>
       ELSE <<SubSeq(text, 1, cut - 1)>> \o SplitLines(SubSeq(text, cut + 1, Len(text)))

RECURSIVE JoinLines(_)
\* '\n'.join(lines)
JoinLines(lines) ==
    IF Len(lines) = 0 THEN <<>>
    ELSE IF Len(lines) = 1 THEN lines[1]
    ELSE lines[1] \o <<NL>> \o JoinLines(Tail(lines))

RECURSIVE TrailingSpaces(_, _)
\* How many characters of s[1..pos] at its end are whitespace.
TrailingSpaces(s, pos) ==
    IF pos >= 1 /\ IsSpace(s[pos]) THEN 1 + TrailingSpaces(s, pos - 1) ELSE 0

\* str.strip()
Strip(s) ==
    LET lead == RunLength("space", s, 1)
    IN IF lead = Len(s) THEN <<>>
       ELSE SubSeq(s, lead + 1, Len(s) - TrailingSpaces(s, Len(s)))

LowerStr(s) == [k \in 1..Len(s) |-> Lower(s[k])]

-----------------------------------------------------------------------------
(* text_cleaning.py: the four sub-transforms and clean_text *)

\* r'---\s*Page\s+\d+\s*---'
PageMarkerPattern == <<
    Lit("-"), Lit("-"), Lit("-"), Rep("space", 0, Unbounded), Lit("Page"),
    Rep("space", 1, Unbounded), Rep("digit", 1, Unbounded), Rep("space", 0, Unbounded),
    Lit("-"), Lit("-"), Lit("-") >>

remove_page_markers(text) == ReSubEmpty(PageMarkerPattern, text, 1, TRUE)

\* The four header_patterns of lines 34-39; the third starts with the escaped company name.
header_patterns(company) == <<
    <<Rep("any", 0, Unbounded), Lit("|"), Rep("space", 0, Unbounded), Rep("digit", 4, 4),
      Rep("space", 1, Unbounded), Lit("Annual"), Rep("space", 1, Unbounded), Lit("Report"),
      Rep("any", 0, Unbounded), EndOfString>>,
    <<Rep("any", 0, Unbounded), Lit("Annual"), Rep("space", 1, Unbounded), Lit("Report"),
      Rep("space", 1, Unbounded), Rep("digit", 4, 4), Rep("any", 0, Unbounded), EndOfString>>,
    [k \in 1..Len(company) |-> Lit(company[k])] \o
    <<Rep("space", 0, Unbounded), Lit("|"), Rep("space", 0, Unbounded), Rep("any", 0, Unbounded),
      Lit("Annual"), Lit(" "), Lit("Report"), Rep("any", 0, Unbounded), EndOfString>>,
    <<Rep("any", 0, Unbounded), Lit("|"), Rep("space", 0, Unbounded), Lit("Page"),
      Rep("space", 0, Unbounded), Rep("digit", 1, Unbounded), Rep("any", 0, Unbounded),
      EndOfString>> >>

\* The four page_num_patterns of lines 42-47.
page_num_patterns == <<
    <<Rep("digit", 1, 4), Rep("space", 0, Unbounded), EndOfString>>,
    <<Rep("digit", 1, 4), Rep("space", 0, Unbounded), Lit("YF"), Rep("space", 0, Unbounded),
      EndOfString>>,
    <<Lit("YF"), Rep("space", 0, Unbounded), Rep("digit", 4, 4), Rep("space", 0, Unbounded),
      EndOfString>>,
    <<Lit("Page"), Rep("space", 1, Unbounded), Rep("digit", 1, Unbounded),
      Rep("space", 0, Unbounded), EndOfString>> >>

\* Lines 55-74: the verdict on one stripped, non-empty line.
is_artifact(stripped, company) ==
    \/ LET patterns == header_patterns(company)
       IN \E p \in 1..Len(patterns) : ReMatch(patterns[p], stripped, TRUE)
    \/ \E p \in 1..Len(page_num_patterns) : ReMatch(page_num_patterns[p], stripped, TRUE)
    \/ LowerStr(stripped) = LowerStr(company)

RECURSIVE CleanedLines(_, _)
\* Lines 49-77: a blank line becomes '', an artifact line is dropped, any
\* other line is kept as it is.
CleanedLines(lines, company) ==
    IF Len(lines) = 0 THEN <<>>
    ELSE LET stripped == Strip(Head(lines))
             rest == CleanedLines(Tail(lines), company)
         IN IF stripped = <<>> THEN <<(<<>>)>> \o rest
            ELSE IF is_artifact(stripped, company) THEN rest
            ELSE <<Head(lines)>> \o rest

remove_headers_footers(text, company) ==
    JoinLines(CleanedLines(SplitLines(text), company))

\* Line 116: the characters that end a sentence.
EndsWithPunctuation(line) == line[Len(line)] \in {".", "!", "?", ":", ";"}

\* r'^[\d\-\u2022]+\.'
ListItemPattern == <<Rep("listmark", 1, Unbounded), Lit(".")>>

\* Line 121: the next line looks like a list item.
next_is_list(next_line) ==
    \/ ReMatch(ListItemPattern, next_line, FALSE)
    \/ next_line[1] \in {"-", "*", MOJIBAKE}

RECURSIVE FixedLinesRejoined(_, _)
\* A pass that goes on from the joined line instead of two lines ahead.
FixedLinesRejoined(lines, idx) ==
    IF idx > Len(lines) THEN <<>>
    ELSE LET current_line == Strip(lines[idx]) IN
         IF current_line = <<>> THEN <<(<<>>)>> \o FixedLinesRejoined(lines, idx + 1)
         ELSE IF idx + 1 <= Len(lines) /\ Strip(lines[idx + 1]) = <<>>
              THEN <<current_line>> \o FixedLinesRejoined(lines, idx + 1)
         ELSE IF /\ idx + 1 <= Len(lines)
                 /\ ~EndsWithPunctuation(current_line)
                 /\ ~next_is_list(Strip(lines[idx + 1]))
              THEN FixedLinesRejoined(
                       [lines EXCEPT ![idx + 1] = current_line \o <<" ">> \o Strip(lines[idx + 1])],
                       idx + 1)
         ELSE <<current_line>> \o FixedLinesRejoined(lines, idx + 1)

RECURSIVE FixedLines(_, _)
\* The while loop of lines 90-131 from index i (1-based) on.
FixedLines(lines, idx) ==
    IF idx > Len(lines) THEN <<>>
    ELSE LET current_line == Strip(lines[idx]) IN
         IF current_line = <<>> THEN <<(<<>>)>> \o FixedLines(lines, idx + 1)
         ELSE IF idx + 1 <= Len(lines) /\ Strip(lines[idx + 1]) = <<>>
              THEN <<current_line>> \o FixedLines(lines, idx + 1)
         ELSE IF /\ idx + 1 <= Len(lines)
                 /\ ~EndsWithPunctuation(current_line)
                 /\ ~next_is_list(Strip(lines[idx + 1]))
              THEN <<current_line \o <<" ">> \o Strip(lines[idx + 1])>> \o FixedLines(lines, idx + 2)
         ELSE <<current_line>> \o FixedLines(lines, idx + 1)

fix_broken_line_joins(text) == JoinLines(FixedLines(SplitLines(text), 1))

RECURSIVE CollapseBlanks(_)
\* re.sub(r'[ \t]+', ' ', text)
CollapseBlanks(text) ==
    IF Len(text) = 0 THEN <<>>
    ELSE IF IsBlank(text[1])
         THEN <<" ">> \o CollapseBlanks(SubSeq(text, 1 + RunLength("blank", text, 1), Len(text)))
         ELSE <<text[1]>> \o CollapseBlanks(Tail(text))

RECURSIVE CollapseNewlines(_)
\* re.sub(r'\n{3,}', '\n\n', text)
CollapseNewlines(text) ==
    IF Len(text) = 0 THEN <<>>
    ELSE IF text[1] = NL
         THEN LET run == RunLength("newline", text, 1)
              IN (IF run >= 3 THEN <<NL, NL>> ELSE SubSeq(text, 1, run))
                 \o CollapseNewlines(SubSeq(text, run + 1, Len(text)))
         ELSE <<text[1]>> \o CollapseNewlines(Tail(text))

remove_extra_spaces(text) == CollapseNewlines(CollapseBlanks(text))

\* The pipeline of clean_text, stage by stage; the last stage is its result.
CleanStages(text, company) ==
    LET s1 == remove_page_markers(text)
        s2 == remove_headers_footers(s1, company)
        s3 == fix_broken_line_joins(s2)
        s4 == remove_extra_spaces(s3)
    IN <<s1, s2, s3, s4, Strip(s4)>>

clean_text(text, company) == LET stages == CleanStages(text, company) IN stages[Len(stages)]

-----------------------------------------------------------------------------
(* main.py run_llm_processing driving process_file_smart *)

\* sorted(CLEANED_TEXT_DIR.glob("*.txt")), as file stems.
Files == << <<"ACME">>, <<"TRENT", "_", "2022">> >>
FileSet == {Files[k] : k \in 1..Len(Files)}

DocText(n) == [k \in 1..n |-> "x"]

file_path == Files[fileIdx]
model == MODELS_TO_TRY[modelIdx]

\* The batch loop is not running.
OrchIdle ==
    /\ texts = [f \in FileSet |-> <<>>]
    /\ output_files = {}
    /\ fileIdx = 1
    /\ pc = "idle"
    /\ outcome = [f \in FileSet |-> "pending"]
    /\ chunks = <<>>
    /\ modelIdx = 1
    /\ i = 1
    /\ chunk_results = <<>>
    /\ res = None
    /\ model_failed = FALSE
    /\ result = None
    /\ trace = <<>>

ChunkingIdle == [text |-> <<>>, budget |-> 1, chunks |-> <<>>, done |-> FALSE]
MergingIdle == [results |-> <<>>, merged |-> None, nested |-> None, step |-> "idle"]

CleaningIdle ==
    [text |-> <<>>, company |-> <<>>, stages |-> <<>>, cleaned |-> <<>>, recleaned |-> <<>>,
     step |-> "idle"]

NoLocals ==
    /\ chunks = <<>>
    /\ modelIdx = 1
    /\ i = 1
    /\ chunk_results = <<>>
    /\ res = None
    /\ model_failed = FALSE
    /\ result = None
    /\ trace = <<>>

Init ==
    /\ texts \in [FileSet -> {DocText(n) : n \in 0..MaxTextLen}]
    /\ output_files \in SUBSET FileSet
    /\ fileIdx = 1
    /\ pc = "loop"
    /\ outcome = [f \in FileSet |-> "pending"]
    /\ NoLocals
    /\ chunking = ChunkingIdle
    /\ merging = MergingIdle
    /\ cleaning = CleaningIdle

\* main.py 106-108: the output exists, the file is skipped.
SkipExisting ==
    /\ pc = "loop" /\ fileIdx <= Len(Files)
    /\ file_path \in output_files
    /\ outcome' = [outcome EXCEPT ![file_path] = "Skipped"]
    /\ fileIdx' = fileIdx + 1
    /\ UNCHANGED <<res, texts, output_files, pc, chunks, modelIdx, i, chunk_results,
                   model_failed, result, trace>>
    /\ UNCHANGED pureVars

\* llm_processing.py 111-116: the file cannot be read, None is returned.
ReadFails ==
    /\ pc = "loop" /\ fileIdx <= Len(Files)
    /\ file_path \notin output_files
    /\ result' = None
    /\ outcome' = [outcome EXCEPT ![file_path] = "Unreadable"]
    /\ pc' = "returned"
    /\ UNCHANGED <<res, texts, output_files, fileIdx, chunks, modelIdx, i, chunk_results,
                   model_failed, trace>>
    /\ UNCHANGED pureVars

\* llm_processing.py 111-128: read the text and determine the chunks.
ReadAndChunk ==
    /\ pc = "loop" /\ fileIdx <= Len(Files)
    /\ file_path \notin output_files
    /\ chunks' = Chunker(texts[file_path], CHUNK_SIZE_CHARS)
    /\ modelIdx' = 1
    /\ trace' = <<>>
    /\ pc' = "model"
    /\ UNCHANGED <<res, texts, output_files, fileIdx, i, chunk_results, model_failed,
                   result, outcome>>
    /\ UNCHANGED pureVars

\* Variant of NextModel: the results of the failed model are carried over.
NextModelKeepsResults ==
    /\ pc = "model" /\ modelIdx <= Len(MODELS_TO_TRY)
    /\ model_failed' = FALSE
    /\ i' = 1
    /\ pc' = "chunk"
    /\ UNCHANGED <<res, texts, output_files, fileIdx, chunks, modelIdx, result, outcome,
                   trace, chunk_results>>
    /\ UNCHANGED pureVars

\* llm_processing.py 131-135: the next model of the list starts its attempt.
NextModel ==
    /\ pc = "model" /\ modelIdx <= Len(MODELS_TO_TRY)
    /\ chunk_results' = <<>>
    /\ model_failed' = FALSE
    /\ i' = 1
    /\ pc' = "chunk"
    /\ UNCHANGED <<res, texts, output_files, fileIdx, chunks, modelIdx, result, outcome, trace>>
    /\ UNCHANGED pureVars

\* llm_processing.py 164-165: the model list is exhausted.
AllModelsFailed ==
    /\ pc = "model" /\ modelIdx > Len(MODELS_TO_TRY)
    /\ result' = None
    /\ outcome' = [outcome EXCEPT ![file_path] = "AllModelsFailed"]
    /\ pc' = "returned"
    /\ UNCHANGED <<res, texts, output_files, fileIdx, chunks, modelIdx, i, chunk_results,
                   model_failed, trace>>
    /\ UNCHANGED pureVars

\* llm_processing.py 137-140 and 76: the request for chunk i is sent; the call blocks.
DispatchChunk ==
    /\ pc = "chunk" /\ i <= Len(chunks)
    /\ trace' = Append(trace, [model |-> model, chunk |-> i, outcome |-> "pending"])
    /\ pc' = "call"
    /\ UNCHANGED <<res, texts, output_files, fileIdx, chunks, modelIdx, i, chunk_results,
                   model_failed, result, outcome>>
    /\ UNCHANGED pureVars

\* Variant of TakeResult: a failed chunk does not leave the chunk loop.
TakeResultNoBreak(r) ==
    IF Truthy(r)
    THEN /\ chunk_results' = Append(chunk_results, r)
         /\ i' = i + 1
         /\ pc' = "chunk"
         /\ UNCHANGED model_failed
    ELSE /\ model_failed' = TRUE
         /\ i' = i + 1
         /\ pc' = "chunk"
         /\ UNCHANGED chunk_results

\* llm_processing.py 141-145: a truthy result is kept, anything else fails the model.
TakeResult(r) ==
    IF Truthy(r)
    THEN /\ chunk_results' = Append(chunk_results, r)
         /\ i' = i + 1
         /\ pc' = "chunk"
         /\ UNCHANGED model_failed
    ELSE /\ model_failed' = TRUE
         /\ pc' = "attempt_end"
         /\ UNCHANGED <<chunk_results, i>>

\* llm_processing.py 76-99 and 140-145: the backend answers and process_chunk returns.
ChunkReturns ==
    /\ pc = "call"
    /\ \E k \in 1..Len(BackendReplies(model)) :
         /\ res' = process_chunk(BackendReplies(model)[k])
         /\ TakeResult(res')
         /\ trace' = [trace EXCEPT ![Len(trace)].outcome =
                         IF pc' = "chunk" THEN "ok" ELSE "failed"]
    /\ UNCHANGED <<texts, output_files, fileIdx, chunks, modelIdx, result, outcome>>
    /\ UNCHANGED pureVars

\* llm_processing.py 137: the chunk loop ends after the last chunk.
ChunksExhausted ==
    /\ pc = "chunk" /\ i > Len(chunks)
    /\ pc' = "attempt_end"
    /\ UNCHANGED <<res, texts, output_files, fileIdx, chunks, modelIdx, i, chunk_results,
                   model_failed, result, outcome, trace>>
    /\ UNCHANGED pureVars

\* Variant of AttemptOk: any returned result makes the attempt a success.
AttemptOkAnyResult == Len(chunk_results) > 0

\* llm_processing.py 156: the test that an attempt succeeded.
AttemptOk == ~model_failed /\ Len(chunk_results) = Len(chunks)

\* llm_processing.py 159: {"company": file_path.stem, **merged}
Record(stem, merged) == Dict(("company" :> Str(stem)) @@ merged.v)

\* llm_processing.py 156-159: merge and return the record; an exception of
\* merge_results is caught neither here nor in run_llm_processing.
AttemptSucceeds ==
    /\ pc = "attempt_end" /\ AttemptOk
    /\ LET merged == merge_results(chunk_results) IN
         IF merged.t = "raise"
         THEN /\ pc' = "raised"
              /\ UNCHANGED result
         ELSE /\ result' = Record(file_path, merged)
              /\ pc' = "returned"
    /\ UNCHANGED <<texts, output_files, fileIdx, chunks, modelIdx, i, chunk_results,
                   res, model_failed, outcome, trace>>
    /\ UNCHANGED pureVars

\* llm_processing.py 161-162: str(model_failed).lower() is "true" or "false" and
\* never contains "model", so the continue is dead; the loop body ends here
\* and the for loop takes the next model all the same.
AttemptFails ==
    /\ pc = "attempt_end" /\ ~AttemptOk
    /\ modelIdx' = modelIdx + 1
    /\ pc' = "model"
    /\ UNCHANGED <<res, texts, output_files, fileIdx, chunks, i, chunk_results,
                   model_failed, result, outcome, trace>>
    /\ UNCHANGED pureVars

\* main.py 110-115: a truthy result is written; the loop takes the next file.
WriteOutput ==
    /\ pc = "returned"
    /\ IF Truthy(result)
       THEN /\ output_files' = output_files \cup {file_path}
            /\ outcome' = [outcome EXCEPT ![file_path] = "Success"]
       ELSE UNCHANGED <<output_files, outcome>>
    /\ fileIdx' = fileIdx + 1
    /\ pc' = "loop"
    /\ chunks' = <<>>
    /\ modelIdx' = 1
    /\ i' = 1
    /\ chunk_results' = <<>>
    /\ res' = None
    /\ model_failed' = FALSE
    /\ result' = None
    /\ trace' = <<>>
    /\ UNCHANGED texts
    /\ UNCHANGED pureVars

\* main.py 102: the loop over the files is over.
Finish ==
    /\ pc = "loop" /\ fileIdx > Len(Files)
    /\ pc' = "done"
    /\ UNCHANGED <<res, texts, output_files, fileIdx, chunks, modelIdx, i, chunk_results,
                   model_failed, result, outcome, trace>>
    /\ UNCHANGED pureVars

Next ==
    \/ SkipExisting
    \/ ReadFails
    \/ ReadAndChunk
    \/ NextModel
    \/ AllModelsFailed
    \/ DispatchChunk
    \/ ChunkReturns
    \/ ChunksExhausted
    \/ AttemptSucceeds
    \/ AttemptFails
    \/ WriteOutput
    \/ Finish

Spec == Init /\ [][Next]_vars

\* The interpreter runs the one thread of the program on, and every backend
\* call returns: no step that is possible is put off for ever.
FairSpec == Spec /\ WF_vars(Next)

-----------------------------------------------------------------------------
(* The chunker on its own (specification SpecChunk) *)

\* All sequences over a set of characters of length at most n.
RECURSIVE SeqsUpTo(_, _)
SeqsUpTo(S, n) ==
    IF n = 0 THEN {<<>>}
    ELSE LET shorter == SeqsUpTo(S, n - 1)
         IN shorter \cup {Append(t, c) : t \in shorter, c \in S}

InitChunk ==
    /\ OrchIdle
    /\ merging = MergingIdle
    /\ cleaning = CleaningIdle
    /\ \E text \in SeqsUpTo({"a", "b"}, MaxChunkText), budget \in 1..MaxBudget :
          chunking = [text |-> text, budget |-> budget, chunks |-> <<>>, done |-> FALSE]

\* llm_processing.py 121-128 with the budget as a parameter.
SplitText ==
    /\ ~chunking.done
    /\ chunking' = [chunking EXCEPT !.chunks = Chunker(chunking.text, chunking.budget),
                                    !.done = TRUE]
    /\ UNCHANGED <<orchVars, merging, cleaning>>

NextChunk == SplitText

SpecChunk == InitChunk /\ [][NextChunk]_vars

-----------------------------------------------------------------------------
(* merge_results on its own (specification SpecMerge) *)

\* Per-chunk results: dicts with all, some or none of the category keys, with
\* repeated statements, with a value that is no list, with a foreign key.
ResultSamples == <<
    Dict([key \in CategorySet |->
            CASE key = "positive" -> List(<<"a">>)
              [] key = "negative" -> List(<<>>)
              [] key = "forward_looking" -> List(<<"b">>)
              [] OTHER -> List(<<"a", "a">>)]),
    Dict([key \in CategorySet |->
            IF key = "positive" THEN List(<<"b", "a">>) ELSE List(<<>>)]),
    Dict("negative" :> List(<<"a">>)),
    Dict(("positive" :> Str(<<"a">>)) @@ ("risks" :> List(<<"b">>))),
    Dict(("summary" :> List(<<"b">>)) @@ ("positive" :> List(<<"a", "b">>))),
    Dict(<<>>) >>

ResultLists == SeqsUpTo({ResultSamples[k] : k \in 1..Len(ResultSamples)}, MaxResults)

InitMerge ==
    /\ OrchIdle
    /\ chunking = ChunkingIdle
    /\ cleaning = CleaningIdle
    /\ \E results \in ResultLists :
          merging = [results |-> results, merged |-> None, nested |-> None, step |-> "input"]

\* merge_results(results)
MergeAll ==
    /\ merging.step = "input"
    /\ merging' = [merging EXCEPT !.merged = merge_results(merging.results),
                                  !.step = "merged"]
    /\ UNCHANGED <<orchVars, chunking, cleaning>>

\* merge_results([merge_results(results[:-1]), results[-1]])
MergeNested ==
    /\ merging.step = "merged"
    /\ Len(merging.results) >= 1
    /\ LET n == Len(merging.results)
           front == merge_results(SubSeq(merging.results, 1, n - 1))
       IN merging' = [merging EXCEPT !.nested = merge_results(<<front, merging.results[n]>>),
                                     !.step = "nested"]
    /\ UNCHANGED <<orchVars, chunking, cleaning>>

NextMerge == MergeAll \/ MergeNested

SpecMerge == InitMerge /\ [][NextMerge]_vars

-----------------------------------------------------------------------------
(* clean_text on its own (specification SpecClean) *)

\* The pieces the input texts are built from, one per line: a blank line, a
\* whitespace-only line, two blank lines, a sentence fragment, a sentence
\* end, a dashed and a numbered list item, a page number, the company name, a line with a run of
\* blanks, a page marker, and the two halves of a page marker that is broken
\* over lines.
LineSamples == <<
    <<>>,
    <<" ">>,
    <<NL>>,
    <<"a">>,
    <<"a", ".">>,
    <<"-", "a">>,
    <<"1", ".", "a">>,
    <<"1">>,
    <<"ACME">>,
    <<"a", " ", "\t", "a">>,
    <<"-", "-", "-", "Page", " ", "1", "-", "-", "-">>,
    <<"a", "-", "-", "-", "Page">>,
    <<"1", "-", "-", "-", "a">> >>

\* The texts of one to MaxLines pieces.
SampleTexts ==
    {JoinLines(ls) : ls \in SeqsUpTo({LineSamples[k] : k \in 1..Len(LineSamples)}, MaxLines) \ {<<>>}}

\* process_text_file derives the company name from the file stem (ACME.txt).
Companies == {company_name(Files[1])}

InitClean ==
    /\ OrchIdle
    /\ chunking = ChunkingIdle
    /\ merging = MergingIdle
    /\ \E text \in SampleTexts, company \in Companies :
          cleaning = [text |-> text, company |-> company, stages |-> <<>>, cleaned |-> <<>>,
                      recleaned |-> <<>>, step |-> "raw"]

\* text_cleaning.py 180: cleaned_text = clean_text(raw_text, company_name)
Clean ==
    /\ cleaning.step = "raw"
    /\ LET stages == CleanStages(cleaning.text, cleaning.company)
       IN cleaning' = [cleaning EXCEPT !.stages = stages,
                                       !.cleaned = stages[Len(stages)],
                                       !.step = "cleaned"]
    /\ UNCHANGED <<orchVars, chunking, merging>>

\* clean_text applied to its own output, as when the pipeline runs again on a cleaned file.
CleanAgain ==
    /\ cleaning.step = "cleaned"
    /\ cleaning' = [cleaning EXCEPT !.recleaned = clean_text(cleaning.cleaned, cleaning.company),
                                    !.step = "recleaned"]
    /\ UNCHANGED <<orchVars, chunking, merging>>

NextClean == Clean \/ CleanAgain

SpecClean == InitClean /\ [][NextClean]_vars

-----------------------------------------------------------------------------
(* Properties of the batch run (specification Spec) *)

ModelSet == {MODELS_TO_TRY[k] : k \in 1..Len(MODELS_TO_TRY)}
ModelPos(m) == CHOOSE k \in 1..Len(MODELS_TO_TRY) : MODELS_TO_TRY[k] = m

\* The statements (leaf strings) held by one decoded result.
StatementsOf(val) ==
    IF val.t # "dict" THEN {}
    ELSE UNION {{val.v[key].v[n] : n \in 1..Len(val.v[key].v)} : key \in DOMAIN val.v \ {"company"}}

\* The calls of the trace that returned a result under model m.
OkCalls(m) == {j \in 1..Len(trace) : trace[j].model = m /\ trace[j].outcome = "ok"}
FailedUnder(m) == \E j \in 1..Len(trace) : trace[j].model = m /\ trace[j].outcome = "failed"
\* Model m returned a result for every chunk of the document.
SucceededOnAll(m) ==
    \A c \in 1..Len(chunks) : \E j \in OkCalls(m) : trace[j].chunk = c

\* C1: once a chunk fails under a model no further chunk is dispatched under
\* that model, the results the model had returned are discarded, the next
\* model restarts from the first chunk, and a returned record holds only
\* statements of the one model that succeeded on every chunk.
C1_ModelFallback ==
    /\ \A j \in 1..Len(trace) : \A k \in (j + 1)..Len(trace) :
          trace[j].outcome = "failed" => trace[k].model # trace[j].model
    /\ \A j \in 1..(Len(trace) - 1) :
          trace[j].outcome = "failed" => trace[j + 1].chunk = 1
    /\ pc \in {"chunk", "call"} =>
          /\ Len(chunk_results) = Cardinality(OkCalls(model))
          /\ \A n \in 1..Len(chunk_results) : StatementsOf(chunk_results[n]) \subseteq {model}
    /\ (pc = "returned" /\ Truthy(result)) =>
          \E m \in ModelSet : SucceededOnAll(m) /\ StatementsOf(result) \subseteq {m}

\* A second model took over after the first failed midway, and its record was returned.
C1_Witness ==
    /\ pc = "returned" /\ Truthy(result)
    /\ Len(chunks) = 3
    /\ \E j \in 1..Len(trace) :
          trace[j].model = MODELS_TO_TRY[1] /\ trace[j].chunk = 2 /\ trace[j].outcome = "failed"
    /\ StatementsOf(result) = {MODELS_TO_TRY[2]}

\* C2: processing a document never raises out of the per-document run; the
\* batch loop goes on to the remaining documents.
C2_NeverRaises == pc # "raised"

\* The decoded data has exactly the four category keys, each an array.
IsExtractionResult(val) ==
    /\ val.t = "dict"
    /\ DOMAIN val.v = CategorySet
    /\ \A key \in CategorySet : val.v[key].t = "list"

\* C3: a response counts as a chunk success only if it decodes to an object
\* with exactly the four category keys, each an array; everything else is a
\* chunk failure.
C3_SchemaChecked ==
    (Len(trace) > 0 /\ trace[Len(trace)].outcome = "ok") => IsExtractionResult(res)

\* C5: the backend calls of a document are a sequential ordered trace: it
\* starts with the first model and the first chunk, only the last call can be
\* pending, a success is followed by the next chunk under the same model, a
\* failure by the first chunk under the next model of the list, no model is
\* started twice, and nothing follows a success on the last chunk.
C5_SequentialTrace ==
    /\ Len(trace) > 0 => trace[1].model = MODELS_TO_TRY[1] /\ trace[1].chunk = 1
    /\ \A j \in 1..(Len(trace) - 1) :
          /\ trace[j].outcome # "pending"
          /\ trace[j].outcome = "ok" =>
                trace[j + 1].model = trace[j].model /\ trace[j + 1].chunk = trace[j].chunk + 1
          /\ trace[j].outcome = "failed" =>
                /\ ModelPos(trace[j + 1].model) = ModelPos(trace[j].model) + 1
                /\ trace[j + 1].chunk = 1
    /\ \A m \in ModelSet :
          Cardinality({j \in 1..Len(trace) : trace[j].model = m /\ trace[j].chunk = 1}) <= 1
    /\ \A j \in 1..Len(trace) :
          (trace[j].outcome = "ok" /\ trace[j].chunk = Len(chunks)) => j = Len(trace)
    /\ pc = "call" <=> (Len(trace) > 0 /\ trace[Len(trace)].outcome = "pending")

\* Both models were called, the second after the first failed on a later chunk.
C5_Witness ==
    /\ pc = "call"
    /\ Len(trace) = 5
    /\ trace[2].outcome = "failed"
    /\ trace[5].model = MODELS_TO_TRY[2] /\ trace[5].chunk = 3

\* Every model of the list failed on some chunk of the current document.
EveryModelFailed == \A m \in ModelSet : FailedUnder(m)

\* C6: a record is returned and its file written only if one model returned a
\* result for every chunk; when every model failed on some chunk the document
\* ends in AllModelsFailed with no record and no output file.
C6_SuccessOnlyIfAllChunks ==
    /\ (pc = "returned" /\ Truthy(result)) => \E m \in ModelSet : SucceededOnAll(m)
    /\ EveryModelFailed =>
          /\ pc \in {"attempt_end", "model", "returned"}
          /\ pc = "returned" => (result = None /\ outcome[file_path] = "AllModelsFailed")
    /\ \A f \in FileSet :
          /\ outcome[f] = "Success" => f \in output_files
          /\ outcome[f] = "AllModelsFailed" => f \notin output_files

\* One document ended in AllModelsFailed and the other was written.
C6_Witness ==
    /\ pc = "done"
    /\ outcome[Files[1]] = "AllModelsFailed"
    /\ outcome[Files[2]] = "Success"
    /\ output_files = {Files[2]}

\* C9: the record of a document carries the company name of its file: the
\* part of the stem before the first underscore, or the whole stem.
C9_CompanyName ==
    (pc = "returned" /\ Truthy(result)) => result.v["company"] = Str(company_name(file_path))

-----------------------------------------------------------------------------
(* Properties of the chunker and of merge_results *)

RECURSIVE Concat(_)
\* The sequences of a list joined end to end.
Concat(ss) == IF Len(ss) = 0 THEN <<>> ELSE ss[1] \o Concat(SubSeq(ss, 2, Len(ss)))

\* C7: the chunk list is never empty, its chunks joined in order are the text,
\* every chunk but the last has exactly budget characters and the last at
\* most budget; a text no longer than the budget is its own single chunk.
C7_FixedWidthPartition ==
    chunking.done =>
        LET cs == chunking.chunks
            n == Len(chunking.chunks)
        IN /\ n >= 1
           /\ Concat(cs) = chunking.text
           /\ \A k \in 1..(n - 1) : Len(cs[k]) = chunking.budget
           /\ Len(cs[n]) <= chunking.budget
           /\ Len(chunking.text) <= chunking.budget => cs = <<chunking.text>>

\* A text was split into three chunks, the last one shorter than the budget.
C7_Witness ==
    /\ chunking.done
    /\ Len(chunking.chunks) = 3
    /\ chunking.budget = 2
    /\ Len(chunking.chunks[3]) = 1

\* The statements a per-chunk result contributes to a category.
ListOf(val, key) ==
    IF key \in DOMAIN val.v /\ val.v[key].t = "list" THEN val.v[key].v ELSE <<>>

\* C8: every category of the merged record is the concatenation of that
\* category's lists in chunk order (duplicates kept), the record has exactly
\* the four category keys, and merging the merge of a prefix with the last
\* result gives the same record.
C8_MergeConcatenates ==
    /\ merging.step \in {"merged", "nested"} =>
          /\ merging.merged.t = "dict"
          /\ DOMAIN merging.merged.v = CategorySet
          /\ \A key \in CategorySet :
                merging.merged.v[key] =
                   List(Concat([r \in 1..Len(merging.results) |-> ListOf(merging.results[r], key)]))
    /\ merging.step = "nested" => merging.nested = merging.merged

\* Three results were merged, with a repeated statement kept twice and a
\* category that only one result had.
C8_Witness ==
    /\ merging.step = "nested"
    /\ Len(merging.results) = 3
    /\ merging.results[1] # merging.results[2]
    /\ merging.merged.v["positive"].v = <<"a", "b", "a", "a", "b">>
    /\ merging.merged.v["risks"].v = <<"a", "a">>

-----------------------------------------------------------------------------
(* Properties of clean_text (specification SpecClean) *)

\* The text holds no page marker and no line that remove_headers_footers drops.
ArtifactFree(text, company) ==
    /\ remove_page_markers(text) = text
    /\ \A j \in 1..Len(SplitLines(text)) :
          LET stripped == Strip(SplitLines(text)[j])
          IN stripped = <<>> \/ ~is_artifact(stripped, company)

\* C4: cleaning is idempotent on a text that is free of the artifact
\* patterns: cleaning the cleaned text again changes nothing.
C4_Idempotent ==
    (cleaning.step = "recleaned" /\ ArtifactFree(cleaning.text, cleaning.company))
        => cleaning.recleaned = cleaning.cleaned

RECURSIVE MarkerPositions(_, _)
\* The positions of the text that belong to a page marker.
MarkerPositions(text, pos) ==
    IF pos > Len(text) THEN {}
    ELSE LET e == MatchEnd(PageMarkerPattern, 1, text, pos, TRUE)
         IN IF e > pos THEN (pos..(e - 1)) \cup MarkerPositions(text, e)
            ELSE MarkerPositions(text, pos + 1)

\* The number of the line (1-based) that position k of the text lies on.
LineOf(text, k) == 1 + Cardinality({m \in 1..(k - 1) : text[m] = NL})
NumLines(text) == 1 + Cardinality({m \in 1..Len(text) : text[m] = NL})

RECURSIVE Restrict(_, _, _)
\* The characters of the text at the positions of P that are >= pos, in order.
Restrict(text, P, pos) ==
    IF pos > Len(text) THEN <<>>
    ELSE (IF pos \in P THEN <<text[pos]>> ELSE <<>>) \o Restrict(text, P, pos + 1)

\* Line j of the input as written.
RawLine(text, j) ==
    Restrict(text, {k \in 1..Len(text) : text[k] # NL /\ LineOf(text, k) = j}, 1)

\* Line j of the input without the page markers in it.
Residue(text, j) ==
    Restrict(text, {k \in 1..Len(text) : text[k] # NL /\ LineOf(text, k) = j}
                   \ MarkerPositions(text, 1), 1)

\* Line j is a non-empty line that is kept: it is no artifact line.
KeptLine(text, company, j) ==
    LET stripped == Strip(Residue(text, j))
    IN stripped # <<>> /\ ~is_artifact(stripped, company)

NonSpace(s) == Cardinality({k \in 1..Len(s) : ~IsSpace(s[k])})

RECURSIVE KeptBefore(_, _, _)
\* How many non-blank characters the kept lines 1..j hold.
KeptBefore(text, company, j) ==
    IF j = 0 THEN 0
    ELSE KeptBefore(text, company, j - 1)
         + (IF KeptLine(text, company, j) THEN NonSpace(Residue(text, j)) ELSE 0)

\* The paragraph breaks of the input: for two kept lines that follow each
\* other with a blank line in between, the amount of kept text before the break.
InputBreaks(text, company) ==
    {KeptBefore(text, company, j) : j \in
        {j \in 1..NumLines(text) :
            /\ KeptLine(text, company, j)
            /\ \E k \in (j + 1)..NumLines(text) :
                  /\ KeptLine(text, company, k)
                  /\ \A m \in (j + 1)..(k - 1) : ~KeptLine(text, company, m)
                  /\ \E b \in (j + 1)..(k - 1) : Strip(RawLine(text, b)) = <<>>}}

\* The blank lines of the output, each by the amount of text before it.
OutputBreaks(out) ==
    {NonSpace(SubSeq(out, 1, p)) : p \in {p \in 1..(Len(out) - 1) : out[p] = NL /\ out[p + 1] = NL}}

NoTripleNewline(out) ==
    \A p \in 1..(Len(out) - 2) : ~(out[p] = NL /\ out[p + 1] = NL /\ out[p + 2] = NL)

ParagraphBreaksKept ==
    /\ InputBreaks(cleaning.text, cleaning.company) \subseteq OutputBreaks(cleaning.cleaned)
    /\ NoTripleNewline(cleaning.cleaned)

\* C10: two non-empty kept lines with a blank line between them in the input
\* have a blank line between them in the output, and the output never has
\* more than one blank line in a row.
C10_ParagraphBreaks == cleaning.step = "cleaned" => ParagraphBreaksKept

\* No page marker of the text reaches over a line break.
NoBrokenMarker(text) == \A k \in MarkerPositions(text, 1) : text[k] # NL

\* The paragraph breaks are kept whenever every page marker lies within one line.
ParagraphBreaksKeptWithinLines ==
    (cleaning.step = "cleaned" /\ NoBrokenMarker(cleaning.text)) => ParagraphBreaksKept

\* The lines j of the input that are kept, are followed by a later kept line,
\* and have a run of three or more newlines between them and that line.
LongRunsAfter(text, company) ==
    {j \in 1..NumLines(text) :
        /\ KeptLine(text, company, j)
        /\ \E k \in (j + 3)..NumLines(text) :
              /\ KeptLine(text, company, k)
              /\ \A m \in (j + 1)..(k - 1) : ~KeptLine(text, company, m)
              /\ \E b \in (j + 1)..(k - 2) :
                    RawLine(text, b) = <<>> /\ RawLine(text, b + 1) = <<>>}

\* The number of newlines of the output that follow its first n non-blank
\* characters directly.
NewlinesAt(out, n) ==
    Cardinality({p \in 1..Len(out) : out[p] = NL /\ NonSpace(SubSeq(out, 1, p)) = n})

BlankLineCap ==
    \A j \in LongRunsAfter(cleaning.text, cleaning.company) :
        NewlinesAt(cleaning.cleaned, KeptBefore(cleaning.text, cleaning.company, j)) = 2

\* C11: a run of three or more consecutive newlines in the input collapses to
\* exactly two newlines (one blank line) in the output, never to zero or one;
\* stated for the runs between two kept lines, since the final strip trims
\* the runs at the two ends of the text.
C11_BlankLineCap == cleaning.step = "cleaned" => BlankLineCap

\* The cap holds whenever every page marker lies within one line.
BlankLineCapWithinLines ==
    (cleaning.step = "cleaned" /\ NoBrokenMarker(cleaning.text)) => BlankLineCap

\* Some input has a run of three or more newlines between two kept lines and
\* no page marker that reaches over a line break.
BlankLineCapApplies ==
    /\ cleaning.step = "cleaned"
    /\ NoBrokenMarker(cleaning.text)
    /\ LongRunsAfter(cleaning.text, cleaning.company) # {}

-----------------------------------------------------------------------------
(* Properties of fix_broken_line_joins, the third stage of clean_text *)

\* The lines that go into the line-join repair and the lines that come out.
JoinInput == SplitLines(cleaning.stages[2])
JoinOutput == SplitLines(cleaning.stages[3])

\* Line idx can be joined to the next line: both are non-empty, line idx
\* does not end in one of . ! ? : ; and the next line is no list item.
Joinable(lines, idx) ==
    /\ idx < Len(lines)
    /\ Strip(lines[idx]) # <<>>
    /\ Strip(lines[idx + 1]) # <<>>
    /\ Strip(lines[idx])[Len(Strip(lines[idx]))] \notin {".", "!", "?", ":", ";"}
    /\ ~next_is_list(Strip(lines[idx + 1]))

\* The lines the pass stops at: the first one, the line after a line that
\* was not joined, and the line two ahead of a line that was joined.
Scanned(lines) ==
    LET scanned[idx \in 1..Len(lines)] ==
            \/ idx = 1
            \/ idx >= 2 /\ scanned[idx - 1] /\ ~Joinable(lines, idx - 1)
            \/ idx >= 3 /\ scanned[idx - 2] /\ Joinable(lines, idx - 2)
    IN {idx \in 1..Len(lines) : scanned[idx]}

\* What the pass emits at a line it stops at.
Emitted(lines, idx) ==
    IF Joinable(lines, idx)
    THEN Strip(lines[idx]) \o <<" ">> \o Strip(lines[idx + 1])
    ELSE Strip(lines[idx])

-----------------------------------------------------------------------------
(* Termination of process_file_smart (specification FairSpec) *)

\* process_file_smart has its chunks and has not ended.
Orchestrating == pc \in {"model", "chunk", "call", "attempt_end"}

\* process_file_smart returned a record, or returned after "All models failed".
SuccessOrAllModelsFailed ==
    /\ pc = "returned"
    /\ Truthy(result) \/ outcome[file_path] = "AllModelsFailed"

\* The backend calls made for the document so far.
BackendCalls == Len(trace)

CallsBounded == BackendCalls <= Len(MODELS_TO_TRY) * Len(chunks)

\* Every model of the list made at least one backend call for the document.
EveryModelAttempted == \A m \in ModelSet : \E j \in 1..Len(trace) : trace[j].model = m

AllModelsFailedLast ==
    (pc = "returned" /\ outcome[file_path] = "AllModelsFailed") => EveryModelAttempted

\* C13: the orchestration of one document always terminates: it reaches
\* Success or AllModelsFailed, after at most (number of models) x (number of
\* chunks) backend calls, and AllModelsFailed only after every model of the
\* list has been attempted.
C13_Terminates ==
    /\ Orchestrating ~> SuccessOrAllModelsFailed
    /\ [](CallsBounded /\ AllModelsFailedLast)

\* process_file_smart always ends, by a return or by an exception.
ProcessFileEnds == Orchestrating ~> (pc \in {"returned", "raised"})

\* The bound on the calls and the order of the models hold in every state.
C13_Bounds == CallsBounded /\ AllModelsFailedLast

====
